---- MODULE Spec2Model ----
(***************************************************************************)
(* video-summaryzer: the batch invoker (whisper_cli.py) and the            *)
(* interactive front-end (video_transcriber.py).                           *)
(*                                                                         *)
(* Spec        one process run: either a batch run (module start-up,       *)
(*             main, transcribe_video and its progress thread, writing     *)
(*             records to standard output) or a sequence of reruns of the  *)
(*             interactive main().                                         *)
(* SpecDeliver the result of a run serialized, encoded and written as the  *)
(*             delivery line, and read back by the parent process.         *)
(* SpecSan     sanitize_for_json applied, step by step, to every text up   *)
(*             to MaxLen characters, and then again to what it returned.   *)
(* SpecSim     simulate_progress run to the end of its schedule on every   *)
(*             estimated duration, the model call still running.           *)
(* SpecSub     save_transcription writing a SubRip or WebVTT file, segment *)
(*             by segment, the times being binary64 floats.                *)
(***************************************************************************)
EXTENDS Integers, Sequences, FiniteSets, TLC

\* ------------------------------------------------------------------ bounds

\* Longest audio, in whole seconds, a batch run is given.
MaxDuration == 40

\* Longest audio, in whole seconds, the progress simulator is run on alone.
MaxSimDuration == 100

\* Longest text, in characters, sanitize_for_json is applied to.
MaxLen == 3

\* Longest transcript, in characters, of a delivered result.
MaxTextLen == 3

\* Latest time stamp of a segment, in ticks of the model's clock.
MaxTicks == 75

\* Most segments of a result written as subtitles.
MaxSegments == 2

\* ------------------------------------------------- progress estimation

\* whisper_cli.py:74, the multipliers times ten; "custom" is any other name
\* (time_multipliers.get(model_name, 0.5)).
ModelTags == {"tiny", "base", "small", "medium", "large", "custom"}

TimeMultiplier10(model_name) ==
    CASE model_name = "tiny"   -> 1
      [] model_name = "base"   -> 2
      [] model_name = "small"  -> 4
      [] model_name = "medium" -> 8
      [] model_name = "large"  -> 15
      [] OTHER                 -> 5

\* expected_time, in tenths of a second (whisper_cli.py:125-126).
ExpectedTime10(duration, model_name) == duration * TimeMultiplier10(model_name)

Max(a, b) == IF a >= b THEN a ELSE b

\* steps = max(10, int(expected_time / 5))  (whisper_cli.py:129)
Steps(expected10) == Max(10, expected10 \div 50)

\* A curve that rises and falls: raw_progress * (1 - raw_progress).
EaseOutNumOne(i, steps) == i * (steps - i)

\* simulation_progress = raw_progress * (2 - raw_progress) with
\* raw_progress = i / steps: the numerator of the fraction over steps * steps
\* (whisper_cli.py:137-138).
EaseOutNum(i, steps) == i * (2 * steps - i)

\* The simulated range starts at 40 and spans 50.
ProgressPercentFrom40(num, den) == 40 + (num * 50) \div den

\* "progress": 50 + int(progress * 40), progress = num / den >= 0
\* (whisper_cli.py:93).
ProgressPercent(num, den) == 50 + (num * 40) \div den

\* The percentage the progress thread reports at step i.
SimPercent(i, steps) == ProgressPercent(EaseOutNum(i, steps), steps * steps)

\* ------------------------------------------------------------------- state

VARIABLES
    mode,               \* "batch" (whisper_cli.py) or "interactive" (video_transcriber.py)
    \* --- batch run
    cuda,               \* torch.cuda.is_available()
    pathExists,         \* the file video_path names exists
    pathEncodable,      \* video_path encodes to UTF-8 (no surrogate escapes)
    model_name,
    duration,           \* len(audio) / 16000, in whole seconds (0 before the audio is loaded)
    pc,                 \* position of the main thread
    tpc,                \* position of the progress thread
    i,                  \* loop variable of simulate_progress
    steps,              \* steps of simulate_progress (0 before the audio is loaded)
    transcription_done, \* the completion flag
    stdout,             \* the records written to standard output, in order
    saved,              \* final_result carries "saved_file"
    fileWritten,        \* the timestamped output file was written
    modelInvoked,       \* model.transcribe was called
    result,             \* what model.transcribe returned ("none" before it has)
    raisedAt,           \* the call that raised ("none": nothing raised)
    retval,             \* what transcribe_video returned
    exitCode,           \* exit status of the process (-1 while it runs)
    \* --- interactive front-end
    uiFolder,           \* folder_path in the last rerun
    uiFolderExists,     \* os.path.exists(folder_path) in the last rerun
    uiCalled,           \* the last rerun called transcribe_video
    uiInvoked,          \* the last rerun reached model.transcribe
    uiErrors,           \* the st.error / st.warning messages of the last rerun
    loggerProgress,     \* TranscriptionLogger.progress
    loggerStatus,       \* TranscriptionLogger.status
    loggerLogs,         \* len(TranscriptionLogger.logs)
    \* --- sanitize_for_json applied to a text, and again to its output
    sanInput,           \* the text given (a sequence of code points)
    sanText,            \* the local variable text
    sanIdx,             \* the number of steps applied in this application
    sanPass,            \* 1: the first application; 2: the one on its output
    sanFirst,           \* what the first application returned
    sanTrace,           \* the steps applied in this application, in order
    \* --- the delivery of a result to the parent process
    delObj,             \* final_result: a sequence of fields [key, num, val]
    delLine,            \* the delivery line written to standard output
    delPc,              \* "format", "sent", "received"
    delGot,             \* what the parent parsed out of the line
    \* --- save_transcription writing a subtitle file
    subFormat,          \* format_type
    subSegments,        \* result['segments']: a sequence of [start, end, text]
    subIdx,             \* the segments the loop has written
    subFile,            \* the content of the file (a sequence of code points)
    subPc               \* "idle", "open", "loop", "closed"

batchVars == <<cuda, pathExists, pathEncodable, model_name, duration, pc, tpc, i, steps,
               transcription_done, stdout, saved, fileWritten, modelInvoked,
               result, raisedAt, retval, exitCode>>
uiVars == <<uiFolder, uiFolderExists, uiCalled, uiInvoked, uiErrors, loggerProgress, loggerStatus, loggerLogs>>
sanVars == <<sanInput, sanText, sanIdx, sanPass, sanFirst, sanTrace>>
delVars == <<delObj, delLine, delPc, delGot>>
subVars == <<subFormat, subSegments, subIdx, subFile, subPc>>
\* What a batch run leaves alone.
restVars == <<uiVars, sanVars, delVars, subVars>>
vars == <<mode, batchVars, uiVars, sanVars, delVars, subVars>>

\* The values of the variables of a part that does not run.
UiIdle ==
    /\ uiFolder = "" /\ uiFolderExists = FALSE /\ uiCalled = FALSE /\ uiInvoked = FALSE /\ uiErrors = {}
    /\ loggerProgress = 0 /\ loggerStatus = "Ready" /\ loggerLogs = 0
SanIdle ==
    /\ sanInput = <<>> /\ sanText = <<>> /\ sanIdx = 0 /\ sanPass = 1
    /\ sanFirst = <<>> /\ sanTrace = <<>>
DelIdle == delObj = <<>> /\ delLine = <<>> /\ delPc = "format" /\ delGot = <<>>
SubIdle ==
    /\ subFormat = "txt" /\ subSegments = <<>> /\ subIdx = 0 /\ subFile = <<>>
    /\ subPc = "idle"

\* A line of standard output: a progress record {"progress": p, "status": s}
\* (err: the status is an error string) or the delimiter-wrapped delivery line
\* (hasSaved: the delivered object carries "saved_file"). src is the thread that
\* wrote it.
ProgressRec(src, p, err) ==
    [kind |-> "progress", src |-> src, progress |-> p, err |-> err, hasSaved |-> FALSE]
DeliveryRec(hasSaved) ==
    [kind |-> "delivery", src |-> "main", progress |-> 0, err |-> FALSE, hasSaved |-> hasSaved]

Init ==
    /\ mode \in {"batch", "interactive"}
    /\ cuda \in BOOLEAN
    /\ pathExists \in BOOLEAN
    /\ pathEncodable \in BOOLEAN
    /\ model_name \in ModelTags
    /\ duration = 0
    /\ (mode = "interactive") =>
           (cuda = FALSE /\ pathExists = TRUE /\ pathEncodable = TRUE /\ model_name = "base")
    /\ pc = "module"
    /\ tpc = "idle"
    /\ i = 0
    /\ steps = 0
    /\ transcription_done = FALSE
    /\ stdout = <<>>
    /\ saved = FALSE
    /\ fileWritten = FALSE
    /\ modelInvoked = FALSE
    /\ result = "none"
    /\ raisedAt = "none"
    /\ retval = "unset"
    /\ exitCode = -1
    /\ UiIdle
    /\ SanIdle
    /\ DelIdle
    /\ SubIdle

\* ------------------------------------------------ batch run: main thread

\* Module start-up: the device record, and the GPU record on cuda.
ModuleStart ==
    /\ mode = "batch" /\ pc = "module"
    /\ stdout' = stdout \o <<ProgressRec("main", 5, FALSE)>>
                        \o (IF cuda THEN <<ProgressRec("main", 8, FALSE)>> ELSE <<>>)
    /\ pc' = "begin"
    /\ UNCHANGED <<mode, duration, raisedAt, cuda, pathExists, pathEncodable, model_name, tpc, i, steps,
                   transcription_done, saved, fileWritten, modelInvoked, result,
                   retval, exitCode, restVars>>

\* main() calls transcribe_video: the two records before the model is loaded.
BeginTranscription ==
    /\ mode = "batch" /\ pc = "begin"
    /\ stdout' = stdout \o <<ProgressRec("main", 10, FALSE), ProgressRec("main", 10, FALSE)>>
    /\ pc' = "load_model"
    /\ UNCHANGED <<mode, duration, raisedAt, cuda, pathExists, pathEncodable, model_name, tpc, i, steps,
                   transcription_done, saved, fileWritten, modelInvoked, result,
                   retval, exitCode, restVars>>

\* whisper.load_model: returns (record 30) or raises.
LoadModel ==
    /\ mode = "batch" /\ pc = "load_model"
    /\ \E ok \in BOOLEAN :
         IF ok
         THEN /\ stdout' = stdout \o <<ProgressRec("main", 30, FALSE)>>
              /\ pc' = "load_audio"
         ELSE /\ stdout' = stdout
              /\ pc' = "except"
    /\ raisedAt' = IF pc' = "except" THEN "load_model" ELSE raisedAt
    /\ UNCHANGED <<mode, duration, cuda, pathExists, pathEncodable, model_name, tpc, i, steps,
                   transcription_done, saved, fileWritten, modelInvoked, result,
                   retval, exitCode, restVars>>

\* The path is handed on without being opened here.
LoadAudioLazy ==
    /\ mode = "batch" /\ pc = "load_audio"
    /\ \E d \in {0, MaxDuration} :
         /\ duration' = d
         /\ stdout' = stdout \o <<ProgressRec("main", 50, FALSE)>>
         /\ steps' = Steps(ExpectedTime10(d, model_name))
         /\ pc' = "start_thread"
    /\ UNCHANGED <<mode, raisedAt, cuda, pathExists, pathEncodable, model_name, tpc, i,
                   transcription_done, saved, fileWritten, modelInvoked, result,
                   retval, exitCode, restVars>>

\* whisper.load_audio(video_path): raises when the path does not exist (and may
\* raise on a file it cannot decode); otherwise the duration is known, the
\* record 50 is written and the estimate fixes the simulator's steps.
LoadAudio ==
    /\ mode = "batch" /\ pc = "load_audio"
    /\ \E ok \in BOOLEAN, d \in {0, MaxDuration} :
         IF ok /\ pathExists
         THEN /\ duration' = d
              /\ stdout' = stdout \o <<ProgressRec("main", 50, FALSE)>>
              /\ steps' = Steps(ExpectedTime10(d, model_name))
              /\ pc' = "start_thread"
         ELSE /\ duration' = duration
              /\ stdout' = stdout
              /\ steps' = steps
              /\ pc' = "except"
    /\ raisedAt' = IF pc' = "except" THEN "load_audio" ELSE raisedAt
    /\ UNCHANGED <<mode, cuda, pathExists, pathEncodable, model_name, tpc, i,
                   transcription_done, saved, fileWritten, modelInvoked, result,
                   retval, exitCode, restVars>>

\* progress_thread.start()
StartThread ==
    /\ mode = "batch" /\ pc = "start_thread"
    /\ tpc' = "check"
    /\ pc' = "transcribe"
    /\ UNCHANGED <<mode, duration, raisedAt, cuda, pathExists, pathEncodable, model_name, i, steps,
                   transcription_done, stdout, saved, fileWritten, modelInvoked,
                   result, retval, exitCode, restVars>>

\* model.transcribe returns or raises; either way the completion flag is set.
\* outcome: "text" a result with text, "falsy" a falsy result, "empty" a result
\* whose text is empty after stripping, "raise".
Transcribe ==
    /\ mode = "batch" /\ pc = "transcribe"
    /\ \E outcome \in {"text", "falsy", "empty", "raise"} :
         /\ result' = IF outcome = "raise" THEN result ELSE outcome
         /\ pc' = IF outcome = "raise" THEN "except" ELSE "finalize"
         /\ raisedAt' = IF outcome = "raise" THEN "transcribe" ELSE raisedAt
    /\ modelInvoked' = TRUE
    /\ transcription_done' = TRUE
    /\ UNCHANGED <<mode, duration, cuda, pathExists, pathEncodable, model_name, tpc, i,
                   steps, stdout, saved, fileWritten, retval, exitCode, restVars>>

\* The record written once model.transcribe has returned.
Finalize ==
    /\ mode = "batch" /\ pc = "finalize"
    /\ stdout' = stdout \o <<ProgressRec("main", 90, FALSE)>>
    /\ pc' = "check_result"
    /\ UNCHANGED <<mode, duration, raisedAt, cuda, pathExists, pathEncodable, model_name, tpc, i, steps,
                   transcription_done, saved, fileWritten, modelInvoked, result,
                   retval, exitCode, restVars>>

\* Only a falsy result is turned away: a text that is empty after stripping
\* goes on to be saved and sent.
CheckResultFalsyOnly ==
    /\ mode = "batch" /\ pc = "check_result"
    /\ IF result = "falsy"
       THEN /\ stdout' = stdout \o <<ProgressRec("main", 0, TRUE)>>
            /\ retval' = "None"
            /\ pc' = "returned"
       ELSE /\ stdout' = stdout
            /\ retval' = retval
            /\ pc' = "save"
    /\ UNCHANGED <<mode, duration, raisedAt, cuda, pathExists, pathEncodable, model_name, tpc, i, steps,
                   transcription_done, saved, fileWritten, modelInvoked, result,
                   exitCode, restVars>>

\* A falsy result, or a text that is empty after stripping: an error record
\* and return None. Otherwise the text is sanitized and final_result built.
CheckResult ==
    /\ mode = "batch" /\ pc = "check_result"
    /\ IF result \in {"falsy", "empty"}
       THEN /\ stdout' = stdout \o <<ProgressRec("main", 0, TRUE)>>
            /\ retval' = "None"
            /\ pc' = "returned"
       ELSE /\ stdout' = stdout
            /\ retval' = retval
            /\ pc' = "save"
    /\ UNCHANGED <<mode, duration, raisedAt, cuda, pathExists, pathEncodable, model_name, tpc, i, steps,
                   transcription_done, saved, fileWritten, modelInvoked, result,
                   exitCode, restVars>>

\* The file is written outside any try block: a failure reaches the outer handler.
SaveFileUncaught ==
    /\ mode = "batch" /\ pc = "save"
    /\ \E ok \in BOOLEAN :
         IF ok
         THEN /\ fileWritten' = TRUE
              /\ saved' = TRUE
              /\ stdout' = stdout \o <<ProgressRec("main", 95, FALSE)>>
              /\ pc' = "send"
              /\ raisedAt' = raisedAt
         ELSE /\ fileWritten' = FALSE
              /\ saved' = FALSE
              /\ stdout' = stdout
              /\ pc' = "except"
              /\ raisedAt' = "save"
    /\ UNCHANGED <<mode, duration, cuda, pathExists, pathEncodable, model_name, tpc, i,
                   steps, transcription_done, modelInvoked, result, retval, exitCode,
                   restVars>>

\* The try block that writes ./transcriptions/<name>_<timestamp>.json: on
\* success final_result gets "saved_file" and record 95 is written; a failure
\* of makedirs, open or json.dump is caught and reported with an error record.
SaveFile ==
    /\ mode = "batch" /\ pc = "save"
    /\ \E ok \in BOOLEAN :
         IF ok
         THEN /\ fileWritten' = TRUE
              /\ saved' = TRUE
              /\ stdout' = stdout \o <<ProgressRec("main", 95, FALSE)>>
         ELSE /\ fileWritten' = FALSE
              /\ saved' = FALSE
              /\ stdout' = stdout \o <<ProgressRec("main", 0, TRUE)>>
    /\ pc' = "send"
    /\ UNCHANGED <<mode, duration, raisedAt, cuda, pathExists, pathEncodable, model_name, tpc, i, steps,
                   transcription_done, modelInvoked, result, retval, exitCode, restVars>>

\* json_str.encode('utf-8') raises exactly on a string with surrogate escapes;
\* of the fields of final_result only saved_file (built from video_path) can
\* hold one: text is sanitized, the others come from the model and the clock.
FormatRaises == saved /\ ~pathEncodable

\* The result is sent a second time.
SendResultTwice ==
    /\ mode = "batch" /\ pc = "send"
    /\ stdout' = stdout \o (IF FormatRaises THEN <<ProgressRec("main", 0, TRUE)>>
                            ELSE <<DeliveryRec(saved), DeliveryRec(saved)>>)
    /\ retval' = "final_result"
    /\ pc' = "returned"
    /\ UNCHANGED <<mode, duration, raisedAt, cuda, pathExists, pathEncodable, model_name, tpc, i, steps,
                   transcription_done, saved, fileWritten, modelInvoked, result,
                   exitCode, restVars>>

\* The try block that sends the result: the delivery line, or, when formatting
\* raises, an error record. transcribe_video returns final_result either way.
SendResult ==
    /\ mode = "batch" /\ pc = "send"
    /\ stdout' = stdout \o <<IF FormatRaises THEN ProgressRec("main", 0, TRUE)
                                              ELSE DeliveryRec(saved)>>
    /\ retval' = "final_result"
    /\ pc' = "returned"
    /\ UNCHANGED <<mode, duration, raisedAt, cuda, pathExists, pathEncodable, model_name, tpc, i, steps,
                   transcription_done, saved, fileWritten, modelInvoked, result,
                   exitCode, restVars>>

\* The outer handler of transcribe_video: an error record, then re-raise.
Except ==
    /\ mode = "batch" /\ pc = "except"
    /\ stdout' = stdout \o <<ProgressRec("main", 0, TRUE)>>
    /\ retval' = "raised"
    /\ pc' = "raised"
    /\ UNCHANGED <<mode, duration, raisedAt, cuda, pathExists, pathEncodable, model_name, tpc, i, steps,
                   transcription_done, saved, fileWritten, modelInvoked, result,
                   exitCode, restVars>>

\* main() swallows the exception.
ExitStatusZero(raised) == 0

\* Exit status of main(): exit(1) in its handler when transcribe_video raised,
\* zero when it returned.
ExitStatus(raised) == IF raised THEN 1 ELSE 0

\* main() ends and the process with it; the daemon thread dies with the process.
MainExit ==
    /\ mode = "batch" /\ pc \in {"returned", "raised"}
    /\ exitCode' = ExitStatus(pc = "raised")
    /\ pc' = "exited"
    /\ UNCHANGED <<mode, duration, raisedAt, cuda, pathExists, pathEncodable, model_name, tpc, i, steps,
                   transcription_done, stdout, saved, fileWritten, modelInvoked,
                   result, retval, restVars>>

\* -------------------------------------------- batch run: progress thread

\* A loop that runs its schedule to the end, the completion flag unread.
SimCheckIgnoresFlag ==
    /\ mode = "batch" /\ tpc = "check" /\ pc # "exited"
    /\ tpc' = IF i >= steps THEN "ended" ELSE "emit"
    /\ UNCHANGED <<mode, duration, raisedAt, cuda, pathExists, pathEncodable, model_name, pc, i, steps,
                   transcription_done, stdout, saved, fileWritten, modelInvoked,
                   result, retval, exitCode, restVars>>

\* Top of the loop of simulate_progress: range(steps) is exhausted, or the
\* completion flag is set (break), or the step begins.
SimCheck ==
    /\ mode = "batch" /\ tpc = "check" /\ pc # "exited"
    /\ tpc' = IF i >= steps \/ transcription_done THEN "ended" ELSE "emit"
    /\ UNCHANGED <<mode, duration, raisedAt, cuda, pathExists, pathEncodable, model_name, pc, i, steps,
                   transcription_done, stdout, saved, fileWritten, modelInvoked,
                   result, retval, exitCode, restVars>>

\* The body of the loop: progress_callback writes the record, time.sleep, and
\* the next i.
SimEmit ==
    /\ mode = "batch" /\ tpc = "emit" /\ pc # "exited"
    /\ stdout' = stdout \o <<ProgressRec("sim", SimPercent(i, steps), FALSE)>>
    /\ i' = i + 1
    /\ tpc' = "check"
    /\ UNCHANGED <<mode, duration, raisedAt, cuda, pathExists, pathEncodable, model_name, pc, steps,
                   transcription_done, saved, fileWritten, modelInvoked, result,
                   retval, exitCode, restVars>>

BatchNext ==
    \/ ModuleStart
    \/ BeginTranscription
    \/ LoadModel
    \/ LoadAudio
    \/ StartThread
    \/ Transcribe
    \/ Finalize
    \/ CheckResult
    \/ SaveFile
    \/ SendResult
    \/ Except
    \/ MainExit
    \/ SimCheck
    \/ SimEmit

\* --------------------------------------- the progress simulator alone

\* Standard output when the progress thread starts (no GPU): whisper_cli.py:33,
\* 43, 46, 50, 77.
StdoutAtThreadStart ==
    <<ProgressRec("main", 5, FALSE), ProgressRec("main", 10, FALSE),
      ProgressRec("main", 10, FALSE), ProgressRec("main", 30, FALSE),
      ProgressRec("main", 50, FALSE)>>

\* The state after progress_thread.start(), for every model tag and duration.
InitSim ==
    /\ mode = "batch"
    /\ cuda = FALSE /\ pathExists = TRUE /\ pathEncodable = TRUE
    /\ model_name \in ModelTags
    /\ duration \in 0..MaxSimDuration
    /\ pc = "transcribe"
    /\ tpc = "check"
    /\ i = 0
    /\ steps = Steps(ExpectedTime10(duration, model_name))
    /\ transcription_done = FALSE
    /\ stdout = StdoutAtThreadStart
    /\ saved = FALSE /\ fileWritten = FALSE /\ modelInvoked = FALSE
    /\ result = "none" /\ raisedAt = "none" /\ retval = "unset" /\ exitCode = -1
    /\ UiIdle
    /\ SanIdle
    /\ DelIdle
    /\ SubIdle

NextSim == SimCheck \/ SimEmit

SpecSim == InitSim /\ [][NextSim]_vars

\* ------------------------------------------------- interactive front-end

\* os.path.exists(path) of a path typed into a text input: the empty
\* string names nothing.
PathExists(path, onDisk) == path # "" /\ onDisk

\* len(get_video_files(folder_path)) (video_transcriber.py:75-85), files being
\* the number of video files in the folder if there is one.
GetVideoFiles(folder_path, onDisk, files) ==
    IF folder_path = "" \/ ~PathExists(folder_path, onDisk) THEN 0 ELSE files

\* selected_video is set (video_transcriber.py:197-214): only for a folder
\* that exists and in which get_video_files finds a file.
SelectedVideo(folder_path, onDisk, files) ==
    /\ folder_path # ""
    /\ PathExists(folder_path, onDisk)
    /\ GetVideoFiles(folder_path, onDisk, files) > 0

\* The messages of the folder block (video_transcriber.py:197-214).
FolderMessages(folder_path, onDisk, files) ==
    IF folder_path = "" THEN {}
    ELSE IF ~PathExists(folder_path, onDisk) THEN {"Folder path does not exist"}
    ELSE IF GetVideoFiles(folder_path, onDisk, files) = 0
    THEN {"No video files found in the selected folder"}
    ELSE {}

\* The logger after transcribe_video (video_transcriber.py:131-168), which
\* starts from cleared logs: <<progress, status, number of log entries>>.
UiTranscribeLogger(outcome) ==
    CASE outcome = "ok"                -> <<100, "Completed!", 4>>
      [] outcome = "load_raises"       -> <<0, "Error occurred", 2>>
      [] outcome = "transcribe_raises" -> <<0, "Error occurred", 3>>
      [] OTHER                         -> <<0, "Error occurred", 4>>

\* One run of main() (video_transcriber.py:170-321), from the widgets' values
\* (the folder, the button clicked if any, the output folder) and from how
\* the file system and the model answer.
UiRerun ==
    /\ mode = "interactive"
    /\ \E folder_path \in {"", "/videos"}, onDisk \in BOOLEAN, files \in {0, 1},
          clicked \in {"none", "clear", "start"},
          output_folder \in {"", "/out"}, outOnDisk \in BOOLEAN,
          outcome \in {"ok", "load_raises", "transcribe_raises", "save_raises"} :
         LET messages == FolderMessages(folder_path, onDisk, files)
             selected_video == SelectedVideo(folder_path, onDisk, files)
         IN
         /\ uiFolder' = folder_path
         /\ uiFolderExists' = PathExists(folder_path, onDisk)
         /\ IF clicked = "clear"
            THEN \* clear_logs() and st.rerun(): the run stops here
                 /\ uiErrors' = messages
                 /\ uiCalled' = FALSE
                 /\ uiInvoked' = FALSE
                 /\ loggerProgress' = 0
                 /\ loggerStatus' = "Ready"
                 /\ loggerLogs' = 0
            ELSE IF clicked = "start" /\ ~selected_video
            THEN /\ uiErrors' = messages \cup {"Please select a video file"}
                 /\ uiCalled' = FALSE
                 /\ uiInvoked' = FALSE
                 /\ UNCHANGED <<loggerProgress, loggerStatus, loggerLogs>>
            ELSE IF clicked = "start" /\ ~PathExists(output_folder, outOnDisk)
            THEN /\ uiErrors' = messages \cup {"Please specify a valid output folder"}
                 /\ uiCalled' = FALSE
                 /\ uiInvoked' = FALSE
                 /\ UNCHANGED <<loggerProgress, loggerStatus, loggerLogs>>
            ELSE IF clicked = "start"
            THEN /\ uiCalled' = TRUE
                 /\ uiInvoked' = (outcome # "load_raises")
                 /\ uiErrors' = messages \cup
                        (IF outcome = "ok" THEN {}
                         ELSE {"Transcription failed. Check the logs for details."})
                 /\ loggerProgress' = UiTranscribeLogger(outcome)[1]
                 /\ loggerStatus' = UiTranscribeLogger(outcome)[2]
                 /\ loggerLogs' = UiTranscribeLogger(outcome)[3]
            ELSE /\ uiErrors' = messages
                 /\ uiCalled' = FALSE
                 /\ uiInvoked' = FALSE
                 /\ UNCHANGED <<loggerProgress, loggerStatus, loggerLogs>>
    /\ UNCHANGED <<mode, batchVars, sanVars, delVars, subVars>>

Next == BatchNext \/ UiRerun

Spec == Init /\ [][Next]_vars

\* ------------------------------------------------------ sanitize_for_json
\* Texts are sequences of Unicode code points.

\* The characters texts are drawn from: a, space, line feed, the control
\* character U+0001, e-acute (in the accent list, decomposable), the combining
\* acute accent U+0301, ae (in the accent list, not decomposable), em dash,
\* horizontal ellipsis, no-break space, and the CJK character U+4E2D.
SanChars == {97, 32, 10, 1, 233, 769, 230, 8212, 8230, 160, 20013}

Texts(n) == UNION {[1..k -> SanChars] : k \in 0..n}

\* The concatenation of the sequences of parts, by halves.
RECURSIVE ConcatAll(_)
ConcatAll(parts) ==
    IF parts = <<>> THEN <<>>
    ELSE IF Len(parts) = 1 THEN parts[1]
    ELSE LET half == Len(parts) \div 2
         IN  ConcatAll(SubSeq(parts, 1, half)) \o ConcatAll(SubSeq(parts, half + 1, Len(parts)))

\* unicodedata.normalize('NFKD', c) of one character: the compatibility
\* decomposition (of the characters above: e-acute, ellipsis, no-break space).
Nfkd(c) ==
    CASE c = 233  -> <<101, 769>>
      [] c = 8230 -> <<46, 46, 46>>
      [] c = 160  -> <<32>>
      [] OTHER    -> <<c>>

\* whisper_cli.py:176
Normalize(text) == ConcatAll([k \in DOMAIN text |-> Nfkd(text[k])])

\* [\x00-\x08\x0b\x0c\x0e-\x1f\x7f-\x9f]
IsControl(c) == c \in (0..8) \cup {11, 12} \cup (14..31) \cup (127..159)

\* whisper_cli.py:179
StripControl(text) == [k \in DOMAIN text |-> IF IsControl(text[k]) THEN 32 ELSE text[k]]

\* The replacements dict (whisper_cli.py:182-191); no replacement holds a key,
\* so the loop of str.replace is a map over the characters.
Replacement(c) ==
    CASE c = 8211 -> <<45>>
      [] c = 8212 -> <<45, 45>>
      [] c = 8216 -> <<39>>
      [] c = 8217 -> <<39>>
      [] c = 8220 -> <<34>>
      [] c = 8221 -> <<34>>
      [] c = 8230 -> <<46, 46, 46>>
      [] c = 160  -> <<32>>
      [] OTHER    -> <<c>>

\* whisper_cli.py:193-194
Replace(text) == ConcatAll([k \in DOMAIN text |-> Replacement(text[k])])

\* str.isprintable(): not a control, separator (but the space) or format character.
IsPrintable(c) ==
    c \notin (0..31) \cup (127..160) \cup {173, 8232, 8233, 8239, 8287, 12288}
                 \cup (8192..8207)

\* The accent lists of whisper_cli.py:199-200.
AccentsLower == ((224..253) \ {240, 247})
AccentsUpper == ((192..221) \ {208, 215})

\* Any printable character is kept.
IsSafeAnyPrintable(c) ==
    \/ IsPrintable(c)
    \/ c \in AccentsLower
    \/ c \in AccentsUpper
    \/ c \in {10, 13, 9, 32}

\* The condition of the filter (whisper_cli.py:197-202).
IsSafe(c) ==
    \/ (IsPrintable(c) /\ c < 127)
    \/ c \in AccentsLower
    \/ c \in AccentsUpper
    \/ c \in {10, 13, 9, 32}

Restrict(text) == SelectSeq(text, IsSafe)

\* \s of re on str, and what str.strip() strips.
IsSpace(c) ==
    c \in {9, 10, 11, 12, 13, 32, 28, 29, 30, 31, 133, 160, 5760, 8232, 8233, 8239,
           8287, 12288} \cup (8192..8202)

\* re.sub(r'\s+', ' ', text)
RECURSIVE CollapseSpaces(_)
CollapseSpaces(text) ==
    IF text = <<>> THEN <<>>
    ELSE IF IsSpace(Head(text))
         THEN IF Len(text) > 1 /\ IsSpace(text[2])
              THEN CollapseSpaces(Tail(text))
              ELSE <<32>> \o CollapseSpaces(Tail(text))
         ELSE <<Head(text)>> \o CollapseSpaces(Tail(text))

\* text.strip()
RECURSIVE Strip(_)
Strip(text) ==
    IF text = <<>> THEN <<>>
    ELSE IF IsSpace(Head(text)) THEN Strip(Tail(text))
    ELSE IF IsSpace(text[Len(text)]) THEN Strip(SubSeq(text, 1, Len(text) - 1))
    ELSE text

\* whisper_cli.py:205-206
CollapseWhitespace(text) == Strip(CollapseSpaces(text))

\* Whitespace is collapsed before the character set is restricted.
SanStagesRestrictLast == <<"normalize", "strip_control", "replace", "collapse", "restrict">>

\* The steps of sanitize_for_json in the order of the code (whisper_cli.py:176-206).
SanStages == <<"normalize", "strip_control", "replace", "restrict", "collapse">>

ApplyStage(stage, text) ==
    CASE stage = "normalize"     -> Normalize(text)
      [] stage = "strip_control" -> StripControl(text)
      [] stage = "replace"       -> Replace(text)
      [] stage = "restrict"      -> Restrict(text)
      [] stage = "collapse"      -> CollapseWhitespace(text)

RECURSIVE RunStages(_, _)
RunStages(stages, text) ==
    IF stages = <<>> THEN text
    ELSE RunStages(Tail(stages), ApplyStage(Head(stages), text))

sanitize_for_json(text) == RunStages(SanStages, text)

InitSan ==
    /\ mode = "sanitize"
    /\ cuda = FALSE /\ pathExists = TRUE /\ pathEncodable = TRUE
    /\ model_name = "base" /\ duration = 0
    /\ pc = "module" /\ tpc = "idle" /\ i = 0 /\ steps = 0
    /\ transcription_done = FALSE /\ stdout = <<>>
    /\ saved = FALSE /\ fileWritten = FALSE /\ modelInvoked = FALSE
    /\ result = "none" /\ raisedAt = "none" /\ retval = "unset" /\ exitCode = -1
    /\ UiIdle
    /\ sanInput \in Texts(MaxLen)
    /\ sanText = sanInput
    /\ sanIdx = 0 /\ sanPass = 1 /\ sanFirst = <<>> /\ sanTrace = <<>>
    /\ DelIdle
    /\ SubIdle

SanDone == sanIdx = Len(SanStages)

\* The next step of sanitize_for_json.
SanStep ==
    /\ mode = "sanitize" /\ ~SanDone
    /\ sanText' = ApplyStage(SanStages[sanIdx + 1], sanText)
    /\ sanTrace' = Append(sanTrace, SanStages[sanIdx + 1])
    /\ sanIdx' = sanIdx + 1
    /\ UNCHANGED <<mode, batchVars, uiVars, delVars, subVars, sanInput, sanPass, sanFirst>>

\* sanitize_for_json is called on what it returned.
SanAgain ==
    /\ mode = "sanitize" /\ SanDone /\ sanPass = 1
    /\ sanFirst' = sanText
    /\ sanPass' = 2
    /\ sanIdx' = 0
    /\ sanTrace' = <<>>
    /\ UNCHANGED <<mode, batchVars, uiVars, delVars, subVars, sanInput, sanText>>

NextSan == SanStep \/ SanAgain

SpecSan == InitSan /\ [][NextSan]_vars

\* ------------------------------------------------------ result delivery
\* Strings are sequences of code points, byte strings sequences of 0..255.

\* "===TRANSCRIPTION_RESULT_B64===" (whisper_cli.py:260)
Delimiter == <<61, 61, 61, 84, 82, 65, 78, 83, 67, 82, 73, 80, 84, 73, 79, 78, 95, 82, 69, 83, 85, 76, 84, 95, 66, 54, 52, 61, 61, 61>>   \* "===TRANSCRIPTION_RESULT_B64==="

\* The keys of final_result (whisper_cli.py:214-220, 238).
KeyText == <<116, 101, 120, 116>>   \* "text"
KeyLanguage == <<108, 97, 110, 103, 117, 97, 103, 101>>   \* "language"
KeyTimestamp == <<116, 105, 109, 101, 115, 116, 97, 109, 112>>   \* "timestamp"
KeyModel == <<109, 111, 100, 101, 108>>   \* "model"
KeyDuration == <<100, 117, 114, 97, 116, 105, 111, 110>>   \* "duration"
KeySavedFile == <<115, 97, 118, 101, 100, 95, 102, 105, 108, 101>>   \* "saved_file"

StrField(key, val) == [key |-> key, num |-> FALSE, val |-> val]
\* A float of n whole seconds.
NumField(key, n) == [key |-> key, num |-> TRUE, val |-> <<n>>]

\* The model tag as a string.
ModelString(tag) ==
    CASE tag = "tiny"   -> <<116, 105, 110, 121>>
      [] tag = "base"   -> <<98, 97, 115, 101>>
      [] tag = "small"  -> <<115, 109, 97, 108, 108>>
      [] tag = "medium" -> <<109, 101, 100, 105, 117, 109>>
      [] tag = "large"  -> <<108, 97, 114, 103, 101>>
      [] OTHER          -> <<99, 117, 115, 116, 111, 109, 46, 112, 116>>

\* final_result (whisper_cli.py:214-220), with saved_file when the file was
\* written (line 238). The language is "pt", the timestamp and the path are
\* those of one run.
FinalResult(text, tag, seconds, hasSaved) ==
    <<StrField(KeyText, text),
      StrField(KeyLanguage, <<112, 116>>),
      StrField(KeyTimestamp, <<50, 48, 50, 54, 45, 49, 49, 45, 48, 50, 84, 49, 55, 58, 52, 50, 58, 48, 48>>),
      StrField(KeyModel, ModelString(tag)),
      NumField(KeyDuration, seconds)>>
    \o (IF hasSaved THEN <<StrField(KeySavedFile, <<47, 119, 47, 116, 114, 97, 110, 115, 99, 114, 105, 112, 116, 105, 111, 110, 115, 47, 118, 95, 50, 48, 50, 54, 49, 49, 48, 50, 95, 49, 55, 52, 50, 48, 48, 46, 106, 115, 111, 110>>)>> ELSE <<>>)

\* The decimal digits of n >= 0.
RECURSIVE Digits(_)
Digits(n) == IF n < 10 THEN <<48 + n>> ELSE Digits(n \div 10) \o <<48 + (n % 10)>>

HexDigit(n) == IF n < 10 THEN 48 + n ELSE 87 + n

\* The quote is written as it is.
JsonEscapeNoQuote(c) ==
    CASE c = 92 -> <<92, 92>>
      [] c = 10 -> <<92, 110>>
      [] c = 13 -> <<92, 114>>
      [] c = 9  -> <<92, 116>>
      [] c = 8  -> <<92, 98>>
      [] c = 12 -> <<92, 102>>
      [] c < 32 /\ c \notin {8, 9, 10, 12, 13} ->
             <<92, 117, 48, 48, HexDigit(c \div 16), HexDigit(c % 16)>>
      [] OTHER  -> <<c>>

\* json.dumps(..., ensure_ascii=False) of one character of a string: the
\* quote, the backslash and the control characters are escaped, everything
\* else is written as it is.
JsonEscape(c) ==
    CASE c = 34 -> <<92, 34>>
      [] c = 92 -> <<92, 92>>
      [] c = 10 -> <<92, 110>>
      [] c = 13 -> <<92, 114>>
      [] c = 9  -> <<92, 116>>
      [] c = 8  -> <<92, 98>>
      [] c = 12 -> <<92, 102>>
      [] c < 32 /\ c \notin {8, 9, 10, 12, 13} ->
             <<92, 117, 48, 48, HexDigit(c \div 16), HexDigit(c % 16)>>
      [] OTHER  -> <<c>>

JsonString(str) ==
    <<34>> \o ConcatAll([k \in DOMAIN str |-> JsonEscape(str[k])]) \o <<34>>

\* repr of a float of n whole seconds: "n.0".
JsonNumber(n) == Digits(n) \o <<46, 48>>

JsonValue(f) == IF f.num THEN JsonNumber(f.val[1]) ELSE JsonString(f.val)

RECURSIVE JsonMembers(_)
JsonMembers(obj) ==
    IF obj = <<>> THEN <<>>
    ELSE JsonString(Head(obj).key) \o <<58, 32>> \o JsonValue(Head(obj))
         \o (IF Len(obj) > 1 THEN <<44, 32>> ELSE <<>>) \o JsonMembers(Tail(obj))

\* json.dumps(final_result, ensure_ascii=False)  (whisper_cli.py:249)
JsonDumps(obj) == <<123>> \o JsonMembers(obj) \o <<125>>

\* str.encode('utf-8') of one code point (no surrogates).
Utf8Char(c) ==
    IF c < 128 THEN <<c>>
    ELSE IF c < 2048 THEN <<192 + (c \div 64), 128 + (c % 64)>>
    ELSE IF c < 65536 THEN <<224 + (c \div 4096), 128 + ((c \div 64) % 64), 128 + (c % 64)>>
    ELSE <<240 + (c \div 262144), 128 + ((c \div 4096) % 64), 128 + ((c \div 64) % 64),
           128 + (c % 64)>>

\* json_str.encode('utf-8')  (whisper_cli.py:252)
Utf8Encode(str) == ConcatAll([k \in DOMAIN str |-> Utf8Char(str[k])])

\* The character of the base64 alphabet for a 6-bit value.
B64Char(n) ==
    IF n < 26 THEN 65 + n
    ELSE IF n < 52 THEN 97 + (n - 26)
    ELSE IF n < 62 THEN 48 + (n - 52)
    ELSE IF n = 62 THEN 43 ELSE 47

\* The four characters for the bytes of a group of one, two or three.
Base64Group(bytes) ==
    IF Len(bytes) = 1
    THEN <<B64Char(bytes[1] \div 4), B64Char((bytes[1] % 4) * 16), 61, 61>>
    ELSE IF Len(bytes) = 2
    THEN <<B64Char(bytes[1] \div 4),
           B64Char(((bytes[1] % 4) * 16) + (bytes[2] \div 16)),
           B64Char((bytes[2] % 16) * 4), 61>>
    ELSE <<B64Char(bytes[1] \div 4),
           B64Char(((bytes[1] % 4) * 16) + (bytes[2] \div 16)),
           B64Char(((bytes[2] % 16) * 4) + (bytes[3] \div 64)),
           B64Char(bytes[3] % 64)>>

\* base64.b64encode(bytes).decode('ascii')  (whisper_cli.py:253): the groups
\* of three bytes, the last one of one to three.
Base64Encode(bytes) ==
    LET groups == (Len(bytes) + 2) \div 3
        Group(g) == Base64Group(SubSeq(bytes, (3 * g) - 2,
                                       IF 3 * g <= Len(bytes) THEN 3 * g ELSE Len(bytes)))
    IN  ConcatAll([g \in 1..groups |-> Group(g)])

\* The base64 span of the delivery line (whisper_cli.py:249-253).
PayloadBase64(obj) == Base64Encode(Utf8Encode(JsonDumps(obj)))

\* print(f"{delimiter}{json_base64}{delimiter}")  (whisper_cli.py:260-261)
DeliveryLine(obj) == Delimiter \o PayloadBase64(obj) \o Delimiter

\* --- the parent process, which is not part of these sources: it scans the
\* stream for the delimiter, extracts the enclosed base64 span, decodes it and
\* parses the inner text (specification, section 4.3).

\* needle occurs in hay at position p.
OccursAt(hay, needle, p) ==
    /\ p >= 1 /\ p + Len(needle) - 1 <= Len(hay)
    /\ \A k \in 1..Len(needle) : hay[p + k - 1] = needle[k]

\* The first position >= from at which needle occurs in hay; 0 if none.
FindFrom(hay, needle, from) ==
    LET hits == {p \in from..Len(hay) : OccursAt(hay, needle, p)}
    IN  IF hits = {} THEN 0 ELSE CHOOSE p \in hits : \A q \in hits : p <= q

\* The span between the first delimiter and the next one; <<-1>> if there
\* are not two.
ExtractSpan(stream) ==
    LET p1 == FindFrom(stream, Delimiter, 1)
        p2 == IF p1 = 0 THEN 0 ELSE FindFrom(stream, Delimiter, p1 + Len(Delimiter))
    IN  IF p2 = 0 THEN <<-1>> ELSE SubSeq(stream, p1 + Len(Delimiter), p2 - 1)

\* The 6-bit value of a character of the base64 alphabet; -1 for any other.
B64Val(c) ==
    IF c \in 65..90 THEN c - 65
    ELSE IF c \in 97..122 THEN c - 71
    ELSE IF c \in 48..57 THEN c + 4
    ELSE IF c = 43 THEN 62
    ELSE IF c = 47 THEN 63 ELSE -1

\* The bytes a group of four base64 characters stands for; <<-1>> when it is
\* not one (padding is for the last group only).
Base64GroupBytes(cs, last) ==
    LET a == B64Val(cs[1])
        b == B64Val(cs[2])
        c == B64Val(cs[3])
        d == B64Val(cs[4])
        b1 == (a * 4) + (b \div 16)
        b2 == ((b % 16) * 16) + (c \div 4)
        b3 == ((c % 4) * 64) + d
    IN  IF a < 0 \/ b < 0 THEN <<-1>>
        ELSE IF cs[3] = 61 /\ cs[4] = 61 THEN (IF last THEN <<b1>> ELSE <<-1>>)
        ELSE IF cs[4] = 61 THEN (IF last /\ c >= 0 THEN <<b1, b2>> ELSE <<-1>>)
        ELSE IF c < 0 \/ d < 0 THEN <<-1>>
        ELSE <<b1, b2, b3>>

\* The bytes a base64 text stands for; <<-1>> when it is not base64.
Base64Decode(cs) ==
    LET groups == Len(cs) \div 4
        Group(g) == Base64GroupBytes(SubSeq(cs, (4 * g) - 3, 4 * g), g = groups)
    IN  IF Len(cs) % 4 # 0 \/ \E g \in 1..groups : Group(g) = <<-1>> THEN <<-1>>
        ELSE ConcatAll([g \in 1..groups |-> Group(g)])

\* The number of bytes of the character a byte leads; 0 for a byte that
\* leads none.
Utf8Width(b) ==
    IF b \in 0..127 THEN 1
    ELSE IF b \in 192..223 THEN 2
    ELSE IF b \in 224..239 THEN 3
    ELSE IF b \in 240..247 THEN 4 ELSE 0

\* The code points a UTF-8 byte string stands for; <<-1>> when it is not
\* UTF-8: every byte is a continuation byte or leads a character, and a lead
\* byte is followed by exactly its continuation bytes.
Utf8Decode(bs) ==
    LET IsCont(p) == p \in DOMAIN bs /\ bs[p] \in 128..191
        n(p) == Utf8Width(bs[p])
        WellFormed(p) ==
            IF IsCont(p) THEN p > 1
            ELSE /\ n(p) > 0
                 /\ \A k \in 1..(n(p) - 1) : IsCont(p + k)
                 /\ ~IsCont(p + n(p))
        CharAtByte(p) ==
            IF IsCont(p) THEN <<>>
            ELSE <<CASE n(p) = 1 -> bs[p]
                     [] n(p) = 2 -> ((bs[p] - 192) * 64) + (bs[p + 1] - 128)
                     [] n(p) = 3 -> ((bs[p] - 224) * 4096) + ((bs[p + 1] - 128) * 64)
                                      + (bs[p + 2] - 128)
                     [] n(p) = 4 -> ((bs[p] - 240) * 262144) + ((bs[p + 1] - 128) * 4096)
                                      + ((bs[p + 2] - 128) * 64) + (bs[p + 3] - 128)>>
    IN  IF \E p \in DOMAIN bs : ~WellFormed(p) THEN <<-1>>
        ELSE ConcatAll([p \in DOMAIN bs |-> CharAtByte(p)])

\* What a parse returns: ok, the value, the position after it.
ParseFail == [ok |-> FALSE, val |-> <<>>, pos |-> 0]
Parsed(val, pos) == [ok |-> TRUE, val |-> val, pos |-> pos]

CharAt(str, p) == IF p \in DOMAIN str THEN str[p] ELSE -1

RECURSIVE SkipWs(_, _)
SkipWs(str, p) == IF CharAt(str, p) \in {32, 9, 10, 13} THEN SkipWs(str, p + 1) ELSE p

HexVal(c) ==
    IF c \in 48..57 THEN c - 48
    ELSE IF c \in 97..102 THEN c - 87
    ELSE IF c \in 65..70 THEN c - 55 ELSE -1

\* The characters of a JSON string from p, after its opening quote.
RECURSIVE ParseChars(_, _, _)
ParseChars(str, p, acc) ==
    LET c == CharAt(str, p)
        e == CharAt(str, p + 1)
        h == [k \in 1..4 |-> HexVal(CharAt(str, p + 1 + k))]
    IN  IF c = 34 THEN Parsed(acc, p + 1)
        ELSE IF c < 32 THEN ParseFail
        ELSE IF c # 92 THEN ParseChars(str, p + 1, Append(acc, c))
        ELSE IF e \in {34, 92, 47} THEN ParseChars(str, p + 2, Append(acc, e))
        ELSE IF e = 110 THEN ParseChars(str, p + 2, Append(acc, 10))
        ELSE IF e = 114 THEN ParseChars(str, p + 2, Append(acc, 13))
        ELSE IF e = 116 THEN ParseChars(str, p + 2, Append(acc, 9))
        ELSE IF e = 98 THEN ParseChars(str, p + 2, Append(acc, 8))
        ELSE IF e = 102 THEN ParseChars(str, p + 2, Append(acc, 12))
        ELSE IF e = 117 /\ \A k \in 1..4 : h[k] >= 0
        THEN ParseChars(str, p + 6,
                        Append(acc, (h[1] * 4096) + (h[2] * 256) + (h[3] * 16) + h[4]))
        ELSE ParseFail

ParseString(str, p) ==
    IF CharAt(str, p) = 34 THEN ParseChars(str, p + 1, <<>>) ELSE ParseFail

\* The digits from p: the number they write, and the position after them.
RECURSIVE ParseDigits(_, _, _)
ParseDigits(str, p, n) ==
    IF CharAt(str, p) \in 48..57
    THEN ParseDigits(str, p + 1, (n * 10) + (CharAt(str, p) - 48))
    ELSE Parsed(n, p)

\* A number: <<n>> for n or n.0, <<n, f>> for n.f.
ParseNumber(str, p) ==
    IF CharAt(str, p) \notin 48..57 THEN ParseFail
    ELSE LET whole == ParseDigits(str, p, 0)
         IN  IF CharAt(str, whole.pos) # 46 THEN Parsed(<<whole.val>>, whole.pos)
             ELSE IF CharAt(str, whole.pos + 1) \notin 48..57 THEN ParseFail
             ELSE LET frac == ParseDigits(str, whole.pos + 1, 0)
                  IN  Parsed(IF frac.val = 0 THEN <<whole.val>>
                             ELSE <<whole.val, frac.val>>, frac.pos)

\* The members of an object from p, the position of the first key.
RECURSIVE ParseMembers(_, _, _)
ParseMembers(str, p, acc) ==
    LET key == ParseString(str, p)
        colon == SkipWs(str, key.pos)
        at == SkipWs(str, colon + 1)
        isStr == CharAt(str, at) = 34
        value == IF isStr THEN ParseString(str, at) ELSE ParseNumber(str, at)
        next == SkipWs(str, value.pos)
        field == [key |-> key.val, num |-> ~isStr, val |-> value.val]
    IN  IF ~key.ok \/ CharAt(str, colon) # 58 THEN ParseFail
        ELSE IF ~value.ok THEN ParseFail
        ELSE IF CharAt(str, next) = 44
        THEN ParseMembers(str, SkipWs(str, next + 1), Append(acc, field))
        ELSE IF CharAt(str, next) = 125 THEN Parsed(Append(acc, field), next + 1)
        ELSE ParseFail

\* What a text that is no JSON object parses to.
NotAnObject == <<[key |-> <<>>, num |-> TRUE, val |-> <<-1>>]>>

\* The object a JSON text of string and number members stands for.
JsonParse(str) ==
    LET open == SkipWs(str, 1)
        first == SkipWs(str, open + 1)
        members == IF CharAt(str, first) = 125 THEN Parsed(<<>>, first + 1)
                   ELSE ParseMembers(str, first, <<>>)
    IN  IF str = <<-1>> \/ CharAt(str, open) # 123 THEN NotAnObject
        ELSE IF ~members.ok \/ SkipWs(str, members.pos) # Len(str) + 1 THEN NotAnObject
        ELSE members.val

\* The result the parent gets out of the stream.
ParentReceive(stream) ==
    LET span == ExtractSpan(stream)
    IN  IF span = <<-1>> THEN NotAnObject
        ELSE JsonParse(Utf8Decode(Base64Decode(span)))

\* --- a delivery and its reception

\* The characters transcripts are drawn from: a, the quote, the backslash,
\* ae (two bytes in UTF-8).
DelChars == {97, 34, 92, 230}

DelTexts(n) == UNION {[1..k -> DelChars] : k \in 0..n}

InitDeliver ==
    /\ mode = "deliver"
    /\ cuda = FALSE /\ pathExists = TRUE /\ pathEncodable = TRUE
    /\ model_name \in {"tiny", "custom"}
    /\ duration \in {0, MaxDuration}
    /\ pc = "send" /\ tpc = "ended" /\ i = 0 /\ steps = 10
    /\ transcription_done = TRUE /\ stdout = <<>>
    /\ saved \in BOOLEAN /\ fileWritten = saved /\ modelInvoked = TRUE
    /\ result = "text" /\ raisedAt = "none" /\ retval = "unset" /\ exitCode = -1
    /\ UiIdle
    /\ SanIdle
    /\ \E text \in DelTexts(MaxTextLen) :
           delObj = FinalResult(text, model_name, duration, saved)
    /\ delLine = <<>> /\ delPc = "format" /\ delGot = <<>>
    /\ SubIdle

\* The try block that sends the result (whisper_cli.py:247-261), character
\* by character.
Deliver ==
    /\ mode = "deliver" /\ delPc = "format"
    /\ delLine' = DeliveryLine(delObj)
    /\ delPc' = "sent"
    /\ UNCHANGED <<mode, batchVars, uiVars, sanVars, subVars, delObj, delGot>>

\* The parent reads the line.
Receive ==
    /\ mode = "deliver" /\ delPc = "sent"
    /\ delGot' = ParentReceive(delLine)
    /\ delPc' = "received"
    /\ UNCHANGED <<mode, batchVars, uiVars, sanVars, subVars, delObj, delLine>>

NextDeliver == Deliver \/ Receive

SpecDeliver == InitDeliver /\ [][NextDeliver]_vars

\* ------------------------------------------------------- subtitle files
\* save_transcription (video_transcriber.py:103-129) and the clock strings it
\* writes (video_transcriber.py:87-101).  A segment's start and end are
\* binary64 floats: the float x >= 0 is held exactly, as its whole part and
\* the digits of its fractional part after the point in base 65536 (sixteen
\* bits a digit), [whole |-> floor(x), frac |-> <<d1, d2, ...>>].

Base == 256 * 256

RECURSIVE Pow2(_)
Pow2(k) == IF k = 0 THEN 1 ELSE 2 * Pow2(k - 1)

\* The number of binary digits of n (0 for 0).
RECURSIVE BitLength(_)
BitLength(n) == IF n = 0 THEN 0 ELSE 1 + BitLength(n \div 2)

\* The zeros after the binary point before the first one of r/1000, 0 < r < 1000.
RECURSIVE LeadingZeros(_)
LeadingZeros(r) == IF 2 * r >= 1000 THEN 0 ELSE 1 + LeadingZeros(2 * r)

\* 2^k modulo 1000, by squaring.
RECURSIVE Pow2Mod1000(_)
Pow2Mod1000(k) ==
    IF k = 0 THEN 1
    ELSE IF k % 2 = 0
         THEN LET half == Pow2Mod1000(k \div 2) IN (half * half) % 1000
         ELSE (2 * Pow2Mod1000(k - 1)) % 1000

\* The k-th bit after the binary point of the digits.
Bit(digits, k) ==
    LET l == ((k - 1) \div 16) + 1
    IN  IF l > Len(digits) THEN 0 ELSE (digits[l] \div Pow2(16 * l - k)) % 2

\* The first count digits of rem/1000, by long division.
RECURSIVE FractionDigits(_, _)
FractionDigits(rem, count) ==
    IF count = 0 THEN <<>>
    ELSE <<(rem * Base) \div 1000>> \o FractionDigits((rem * Base) % 1000, count - 1)

\* The digits with the bits after bit m cleared.
Truncate(digits, m) ==
    <<>> \o [l \in DOMAIN digits |->
                IF 16 * l <= m THEN digits[l]
                ELSE IF 16 * (l - 1) >= m THEN 0
                ELSE digits[l] - (digits[l] % Pow2(16 * l - m))]

\* amount added to digit l, and the carry out of the first digit.
RECURSIVE AddAt(_, _, _)
AddAt(digits, l, amount) ==
    IF amount = 0 THEN [carry |-> 0, digits |-> digits]
    ELSE IF l = 0 THEN [carry |-> amount, digits |-> digits]
    ELSE AddAt([digits EXCEPT ![l] = (digits[l] + amount) % Base], l - 1,
               (digits[l] + amount) \div Base)

\* Round to nearest, ties to even: guard is the first bit dropped, sticky
\* says a later one is set, odd that the last bit kept is set.
RoundUp(guard, sticky, odd) == guard = 1 /\ (sticky \/ odd)

\* segment['start'], segment['end']: the binary64 float closest to ms/1000,
\* the time the model reports as ms milliseconds.  A binary64 has 53
\* significant bits: m of them are after the point.
Float(ms) ==
    LET n == ms \div 1000
        r == ms % 1000
        m == IF n = 0 THEN 53 + LeadingZeros(r) ELSE 53 - BitLength(n)
        count == (m + 16) \div 16
        digits == FractionDigits(r, count)
        sticky == \/ \E k \in (m + 2)..(16 * count) : Bit(digits, k) = 1
                  \/ (r * Pow2Mod1000(16 * count)) % 1000 # 0
        kept == Truncate(digits, m)
        inc == AddAt(kept, ((m - 1) \div 16) + 1, Pow2(16 * (((m - 1) \div 16) + 1) - m))
    IN  IF r = 0 THEN [whole |-> n, frac |-> <<>>]
        ELSE IF RoundUp(Bit(digits, m + 1), sticky, Bit(digits, m) = 1)
        THEN [whole |-> n + inc.carry, frac |-> inc.digits]
        ELSE [whole |-> n, frac |-> kept]

\* 1000 times the digits from digit l up, exactly: carry comes in from the
\* digits after l, acc holds the digits of the product after l.
RECURSIVE MulFrom(_, _, _, _)
MulFrom(digits, l, carry, acc) ==
    IF l = 0 THEN [whole |-> carry, frac |-> acc]
    ELSE MulFrom(digits, l - 1, (1000 * digits[l] + carry) \div Base,
                 <<(1000 * digits[l] + carry) % Base>> \o acc)

\* (seconds % 1) * 1000 before it is rounded; seconds % 1 itself is exact.
Times1000(digits) == MulFrom(digits, Len(digits), 0, <<>>)

\* The zero bits that open the digits.
LeadingZeroBits(digits) ==
    LET ones == {k \in 1..(16 * Len(digits)) : Bit(digits, k) = 1}
    IN  IF ones = {} THEN 16 * Len(digits)
        ELSE (CHOOSE k \in ones : \A l \in ones : k <= l) - 1

\* int(x) of the binary64 product closest to the exact x = whole + 0.frac:
\* the product keeps 53 significant bits, m of them after the point, and
\* reaches the next integer when every fraction bit kept is one and the rest
\* rounds up.
IntOfRounded(x) ==
    LET m == IF x.whole > 0 THEN 53 - BitLength(x.whole)
             ELSE 53 + LeadingZeroBits(x.frac)
    IN  IF 16 * Len(x.frac) <= m THEN x.whole
        ELSE IF /\ \A k \in 1..m : Bit(x.frac, k) = 1
                /\ RoundUp(Bit(x.frac, m + 1),
                           \E k \in (m + 2)..(16 * Len(x.frac)) : Bit(x.frac, k) = 1,
                           Bit(x.frac, m) = 1)
        THEN x.whole + 1
        ELSE x.whole

\* millis = int((seconds % 1) * 1000)  (video_transcriber.py:92, 100)
Millis(seconds) == IntOfRounded(Times1000(seconds.frac))

\* f"{n:02d}", f"{n:03d}": at least width digits, zeros in front.
Pad(n, width) == [k \in 1..(width - Len(Digits(n))) |-> 48] \o Digits(n)

\* The body shared by format_time and format_time_vtt; seconds // 3600,
\* seconds % 3600 and seconds % 60 of a float are exact on its whole part.
FormatClock(seconds, mark) ==
    LET hours == seconds.whole \div 3600
        minutes == (seconds.whole % 3600) \div 60
        secs == seconds.whole % 60
        millis == Millis(seconds)
    IN  Pad(hours, 2) \o <<58>> \o Pad(minutes, 2) \o <<58>> \o Pad(secs, 2)
        \o <<mark>> \o Pad(millis, 3)

\* HH:MM:SS,mmm
format_time(seconds) == FormatClock(seconds, 44)

\* HH:MM:SS.mmm
format_time_vtt(seconds) == FormatClock(seconds, 46)

\* " --> "
Arrow == <<32, 45, 45, 62, 32>>

\* "WEBVTT\n\n"
VttHeader == <<87, 69, 66, 86, 84, 84, 10, 10>>

\* f"{i}\n{start_time} --> {end_time}\n{text}\n\n"  (video_transcriber.py:112-116)
SrtBlock(idx, segment) ==
    Digits(idx) \o <<10>>
    \o format_time(Float(segment.start)) \o Arrow \o format_time(Float(segment.end))
    \o <<10>> \o Strip(segment.text) \o <<10, 10>>

\* f"{start_time} --> {end_time}\n{text}\n\n"  (video_transcriber.py:122-125)
VttBlock(segment) ==
    format_time_vtt(Float(segment.start)) \o Arrow \o format_time_vtt(Float(segment.end))
    \o <<10>> \o Strip(segment.text) \o <<10, 10>>

\* --- save_transcription on a result

\* The start of the window in which the model stamps its segments, in
\* milliseconds: the start of the audio, or an hour, two minutes and three
\* seconds in.
Offsets == {0, 3723000}

\* Segment texts: "hi", and " a a " as the model gives it, spaces around.
SubTexts == {<<104, 105>>, <<32, 97, 32, 97, 32>>}

Segment(start, end, text) == [start |-> start, end |-> end, text |-> text]

\* The milliseconds of tick k of the model's clock, whose time stamps come in
\* steps of 0.02 s.
TickToMs(k) == k * 20

\* result['segments']: up to MaxSegments segments, the first from tick s to
\* tick e of the window, each next one starting where the one before ends
\* and as long as it.
SegmentLists ==
    {[k \in 1..q[1] |->
         Segment(q[2] + TickToMs(q[3] + (k - 1) * (q[4] - q[3])),
                 q[2] + TickToMs(q[3] + k * (q[4] - q[3])),
                 q[5])] :
        q \in {r \in (0..MaxSegments) \X Offsets \X (0..MaxTicks) \X (0..MaxTicks) \X SubTexts :
                  /\ r[3] <= r[4]
                  /\ r[1] = 0 => r[2] = 0 /\ r[3] = 0 /\ r[4] = 0 /\ r[5] = <<104, 105>>}}

InitSub ==
    /\ mode = "subtitles"
    /\ cuda = FALSE /\ pathExists = TRUE /\ pathEncodable = TRUE
    /\ model_name = "base" /\ duration = 0
    /\ pc = "module" /\ tpc = "idle" /\ i = 0 /\ steps = 0
    /\ transcription_done = FALSE /\ stdout = <<>>
    /\ saved = FALSE /\ fileWritten = FALSE /\ modelInvoked = FALSE
    /\ result = "none" /\ raisedAt = "none" /\ retval = "unset" /\ exitCode = -1
    /\ UiIdle
    /\ SanIdle
    /\ DelIdle
    /\ subFormat \in {"srt", "vtt"}
    /\ subSegments \in SegmentLists
    /\ subIdx = 0 /\ subFile = <<>> /\ subPc = "open"

\* open(output_path, 'w') and, for 'vtt', f.write("WEBVTT\n\n")
\* (video_transcriber.py:111, 119-120).
SubOpen ==
    /\ mode = "subtitles" /\ subPc = "open"
    /\ subFile' = IF subFormat = "vtt" THEN VttHeader ELSE <<>>
    /\ subPc' = "loop"
    /\ UNCHANGED <<mode, batchVars, uiVars, sanVars, delVars, subFormat, subSegments, subIdx>>

\* One turn of the loop over result['segments'].
SubWriteSegment ==
    /\ mode = "subtitles" /\ subPc = "loop" /\ subIdx < Len(subSegments)
    /\ subFile' = subFile \o
           (IF subFormat = "srt" THEN SrtBlock(subIdx + 1, subSegments[subIdx + 1])
            ELSE VttBlock(subSegments[subIdx + 1]))
    /\ subIdx' = subIdx + 1
    /\ UNCHANGED <<mode, batchVars, uiVars, sanVars, delVars, subFormat, subSegments, subPc>>

\* The loop ends and the with block closes the file.
SubClose ==
    /\ mode = "subtitles" /\ subPc = "loop" /\ subIdx = Len(subSegments)
    /\ subPc' = "closed"
    /\ UNCHANGED <<mode, batchVars, uiVars, sanVars, delVars, subFormat, subSegments, subIdx, subFile>>

NextSub == SubOpen \/ SubWriteSegment \/ SubClose

SpecSub == InitSub /\ [][NextSub]_vars

\* ===================================================== claims on Spec

Lines == DOMAIN stdout
IsDelivery(k) == stdout[k].kind = "delivery"
IsProgress(k) == stdout[k].kind = "progress"
\* A record {"progress": 0, "status": "Error..."}.
IsErrorRecord(k) == IsProgress(k) /\ stdout[k].progress = 0 /\ stdout[k].err
DeliveryCount == Cardinality({k \in Lines : IsDelivery(k)})
ErrorReported == \E k \in Lines : IsErrorRecord(k)

BatchEnded == mode = "batch" /\ pc = "exited"
\* A run fails when a call raised, when the result was falsy or empty, or when
\* formatting the result raised; a failed write of the output file is not a
\* failure of the run.
RunFailed == retval \in {"raised", "None"} \/ (retval = "final_result" /\ FormatRaises)
RunSucceeded == retval = "final_result" /\ ~FormatRaises

\* C1: a batch run that succeeds has written exactly one delivery line when it
\* ends; a run that fails has written none, and has written an error record;
\* at no time does standard output hold two delivery lines.
C1_OneDeliveryPerRun ==
    /\ DeliveryCount <= 1
    /\ BatchEnded /\ RunSucceeded => DeliveryCount = 1
    /\ BatchEnded /\ RunFailed => DeliveryCount = 0 /\ ErrorReported

\* A run that ended in success although the output file could not be written.
C1_Witness == BatchEnded /\ RunSucceeded /\ ~fileWritten /\ DeliveryCount = 1

\* C2: when a batch run has ended, the last line of standard output is the
\* delivery line if the run succeeded and an error record if it failed, and
\* nothing follows a delivery line.
C2_DeliveryIsLast ==
    /\ \A k \in Lines : IsDelivery(k) => k = Len(stdout)
    /\ BatchEnded /\ RunSucceeded => IsDelivery(Len(stdout))
    /\ BatchEnded /\ RunFailed => IsErrorRecord(Len(stdout))

\* C3, as stated: the percentages of all progress records of a run are
\* non-decreasing in the order written.
C3_AllRecordsMonotone ==
    \A j, k \in Lines :
        j < k /\ IsProgress(j) /\ IsProgress(k) => stdout[j].progress <= stdout[k].progress

IsStatusRecord(k) == IsProgress(k) /\ ~stdout[k].err
\* A record of the progress thread that follows the main thread's record 90.
IsLateSimRecord(k) ==
    /\ stdout[k].src = "sim"
    /\ \E j \in Lines : j < k /\ stdout[j].src = "main" /\ stdout[j].progress >= 90

\* C3, amended: error records carry 0; the other progress records are
\* non-decreasing in the order written, but for a record of the progress
\* thread written after the main thread's record 90, of which there is at
\* most one; the progress thread's own records are non-decreasing.
C3_StatusRecordsMonotone ==
    /\ \A k \in Lines : IsProgress(k) /\ stdout[k].err => stdout[k].progress = 0
    /\ \A j, k \in Lines :
          j < k /\ IsStatusRecord(j) /\ IsStatusRecord(k) /\ ~IsLateSimRecord(k)
              => stdout[j].progress <= stdout[k].progress
    /\ \A j, k \in Lines :
          j < k /\ stdout[j].src = "sim" /\ stdout[k].src = "sim"
              => stdout[j].progress <= stdout[k].progress
    /\ Cardinality({k \in Lines : IsLateSimRecord(k)}) <= 1

\* A delivered run whose file write failed (0 after 90) and in which the
\* progress thread wrote a record after the main thread's 90.
C3_Witness ==
    /\ BatchEnded /\ DeliveryCount = 1 /\ ~fileWritten
    /\ \E k \in Lines : IsLateSimRecord(k)
    /\ Cardinality({k \in Lines : stdout[k].src = "sim"}) >= 3

\* C8, as stated: when loading or inference raised, an error record is
\* written, no delivery line, transcribe_video re-raises and the exit status
\* is non-zero; and the exit status is zero only when the run succeeded.
C8_ZeroOnlyOnSuccess ==
    BatchEnded =>
        /\ raisedAt # "none" =>
               ErrorReported /\ DeliveryCount = 0 /\ retval = "raised" /\ exitCode # 0
        /\ exitCode = 0 => RunSucceeded

\* C8, amended: when loading or inference raised, an error record is written,
\* no delivery line, transcribe_video re-raises and the exit status is
\* non-zero; the exit status is non-zero exactly when transcribe_video raised
\* (so it is zero also when the result was empty or could not be formatted).
C8_NonZeroIffRaised ==
    /\ mode = "batch" /\ pc \in {"raised", "exited"} /\ raisedAt # "none" =>
           ErrorReported /\ DeliveryCount = 0 /\ retval = "raised"
    /\ BatchEnded => (exitCode # 0 <=> raisedAt # "none")
    /\ BatchEnded => (exitCode # 0 <=> retval = "raised")
    /\ BatchEnded /\ RunSucceeded => exitCode = 0

\* A run in which model.transcribe raised, ended.
C8_Witness == BatchEnded /\ raisedAt = "transcribe" /\ exitCode = 1

\* The output file was to be written and was not.
SaveFailed == mode = "batch" /\ pc \in {"send", "returned", "exited"}
                 /\ result = "text" /\ ~fileWritten

\* C9: when writing the output file fails, an error record is written, the
\* run goes on to deliver the result and exits with status zero; a delivery
\* line carries saved_file exactly when the file was written.
C9_SaveFailureStillDelivers ==
    /\ SaveFailed => ErrorReported /\ raisedAt = "none"
    /\ SaveFailed /\ pc \in {"returned", "exited"} =>
           DeliveryCount = 1 /\ retval = "final_result"
    /\ SaveFailed /\ pc = "exited" => exitCode = 0
    /\ \A k \in Lines : IsDelivery(k) => (stdout[k].hasSaved <=> fileWritten)

C9_Witness == SaveFailed /\ pc = "exited" /\ DeliveryCount = 1
                 /\ \E k \in Lines : IsDelivery(k) /\ ~stdout[k].hasSaved

\* C10: a batch run on a path that does not exist never calls
\* model.transcribe and ends with an error record and a non-zero status; a
\* rerun of the interactive main() on a folder that does not exist does not
\* call transcribe_video, and shows the error when a folder was named.
C10_NoInvocationOnMissingPath ==
    /\ mode = "batch" /\ ~pathExists =>
           /\ ~modelInvoked
           /\ result = "none"
           /\ BatchEnded => ErrorReported /\ exitCode = 1
    /\ mode = "interactive" /\ ~uiFolderExists =>
           /\ ~uiCalled /\ ~uiInvoked
           /\ uiFolder # "" => "Folder path does not exist" \in uiErrors

\* A batch run on a missing path that loaded the model, failed to load the
\* audio and ended.
C10_Witness == BatchEnded /\ ~pathExists /\ raisedAt = "load_audio" /\ ~modelInvoked

\* ================================================== claims on SpecSim

\* The records of the progress thread, in order: the k-th is that of step k - 1.
SimRecords == SelectSeq(stdout, LAMBDA r : r.src = "sim")

\* C4: the simulator uses max(10, floor(expected_time / 5)) steps; at step
\* i < steps the value p = (i/steps)*(2 - i/steps) lies in [0, 1] and the
\* percentage reported is 50 + floor(40 * p); p and the percentage are
\* non-decreasing in i and the percentage lies in [0, 100].
C4_SimulatorMonotoneBounded ==
    LET e == ExpectedTime10(duration, model_name)
        n(k) == (k - 1) * (2 * steps - (k - 1))   \* p of the k-th record, times steps^2
        v(k) == SimRecords[k].progress
    IN  /\ steps >= 10
        /\ e < (steps + 1) * 50
        /\ steps > 10 => steps * 50 <= e
        /\ Len(SimRecords) = i /\ i <= steps
        /\ \A k \in 1..Len(SimRecords) :
              /\ 0 <= n(k) /\ n(k) <= steps * steps
              /\ (v(k) - 50) * steps * steps <= 40 * n(k)
              /\ 40 * n(k) < (v(k) - 49) * steps * steps
              /\ 0 <= v(k) /\ v(k) <= 100
              /\ k > 1 => n(k - 1) <= n(k) /\ v(k - 1) <= v(k)

\* A schedule of more than ten steps, run to its end.
C4_Witness == tpc = "ended" /\ steps > 10 /\ i = steps /\ Len(SimRecords) = steps

\* ================================================== claims on SpecSan

\* C5: sanitize_for_json applied to what sanitize_for_json returned returns
\* it unchanged.
C5_SanitizeIdempotent ==
    mode = "sanitize" /\ sanPass = 2 /\ SanDone =>
        /\ sanFirst = sanitize_for_json(sanInput)
        /\ sanText = sanFirst

\* The second application has ended on the output of a text in which a
\* character was dropped between two spaces and another was decomposed.
C5_Witness ==
    /\ mode = "sanitize" /\ sanPass = 2 /\ SanDone
    /\ sanInput = <<32, 20013, 233>> /\ sanFirst = <<101>>

\* The allow-list the specification declares: printable ASCII, the listed
\* accented letters, whitespace.
Allowed == (32..126) \cup AccentsLower \cup AccentsUpper \cup {9, 10, 13}

\* C6: what sanitize_for_json returns holds only characters of the allow-list,
\* and its steps are applied in the order normalization, control-character
\* stripping, smart-punctuation substitution, character-set restriction,
\* whitespace collapsing.
C6_OutputInAllowList ==
    /\ mode = "sanitize" /\ SanDone =>
           /\ \A k \in DOMAIN sanText : sanText[k] \in Allowed
           /\ sanTrace = <<"normalize", "strip_control", "replace", "restrict", "collapse">>
    /\ mode = "sanitize" =>
           sanTrace = SubSeq(<<"normalize", "strip_control", "replace", "restrict",
                               "collapse">>, 1, sanIdx)

\* An em dash, a CJK character and an e-acute came out as "--e".
C6_Witness ==
    /\ mode = "sanitize" /\ sanPass = 1 /\ SanDone
    /\ sanInput = <<8212, 20013, 233>> /\ sanText = <<45, 45, 101>>

\* ============================================== claims on SpecDeliver

\* The positions at which the delimiter occurs in the delivery line.
DelimiterPositions == {p \in 1..Len(delLine) : OccursAt(delLine, Delimiter, p)}

\* C7: the delivery line is the delimiter, the base64 of the UTF-8 of the
\* JSON of the result, and the delimiter; the delimiter occurs in it only at
\* its two ends, whatever the padding; the span between the two delimiters
\* decodes and parses to the result that was sent.
C7_DeliveryRoundTrip ==
    /\ mode = "deliver" /\ delPc \in {"sent", "received"} =>
           /\ DelimiterPositions = {1, Len(delLine) - Len(Delimiter) + 1}
           /\ ExtractSpan(delLine) = PayloadBase64(delObj)
           /\ Utf8Decode(Base64Decode(ExtractSpan(delLine))) = JsonDumps(delObj)
    /\ mode = "deliver" /\ delPc = "received" => delGot = delObj

\* A result with a quote, a backslash and a two-byte character was received,
\* from a span padded with "==" right before the closing delimiter.
C7_Witness ==
    /\ mode = "deliver" /\ delPc = "received" /\ delGot = delObj
    /\ delObj[1].val = <<34, 92, 230>>
    /\ Len(delObj) = 6
    /\ delLine[Len(delLine) - Len(Delimiter)] = 61
    /\ delLine[Len(delLine) - Len(Delimiter) - 1] = 61

\* ================================================== claims on SpecSub

\* HH:MM:SS and mmm of a time of ms milliseconds: its hours, minutes, seconds
\* and milliseconds, two, two, two and three digits.
ClockOf(ms, mark) ==
    Pad(ms \div 3600000, 2) \o <<58>> \o Pad((ms \div 60000) % 60, 2) \o <<58>>
    \o Pad((ms \div 1000) % 60, 2) \o <<mark>> \o Pad(ms % 1000, 3)

\* The block stated for the k-th segment.
StatedBlock(k) ==
    LET segment == subSegments[k]
    IN  IF subFormat = "srt"
        THEN Digits(k) \o <<10>> \o ClockOf(segment.start, 44) \o Arrow
             \o ClockOf(segment.end, 44) \o <<10>> \o Strip(segment.text) \o <<10, 10>>
        ELSE ClockOf(segment.start, 46) \o Arrow \o ClockOf(segment.end, 46)
             \o <<10>> \o Strip(segment.text) \o <<10, 10>>

\* The file stated once n segments are written.
StatedFile(n) ==
    (IF subFormat = "vtt" THEN VttHeader ELSE <<>>)
    \o ConcatAll([k \in 1..n |-> StatedBlock(k)])

\* C11: save_transcription writes, for every list of segments, with tag
\* 'srt' the block 'k\nHH:MM:SS,mmm --> HH:MM:SS,mmm\ntext\n\n' for the k-th
\* segment, and with tag 'vtt' the header 'WEBVTT\n\n' and then per segment
\* 'HH:MM:SS.mmm --> HH:MM:SS.mmm\ntext\n\n', HH, MM, SS and mmm being the
\* hours, minutes, seconds and milliseconds of the segment's start and end.
C11_SubtitleFileAsStated ==
    mode = "subtitles" /\ subPc \in {"loop", "closed"} => subFile = StatedFile(subIdx)

\* A SubRip file of two segments is closed whose first segment runs from 0
\* to 1.14 s with text "hi": its block reads
\* '1\n00:00:00,000 --> 00:00:01,139\nhi\n\n', the end a millisecond early.
C11_Witness ==
    /\ mode = "subtitles" /\ subPc = "closed" /\ subFormat = "srt"
    /\ Len(subSegments) = 2
    /\ subSegments[1] = Segment(0, 1140, <<104, 105>>)
    /\ SubSeq(subFile, 1, 36) =
           <<49, 10, 48, 48, 58, 48, 48, 58, 48, 48, 44, 48, 48, 48, 32, 45, 45, 62, 32, 48, 48, 58, 48, 48, 58, 48, 49, 44, 49, 51, 57, 10, 104, 105, 10, 10>>
    /\ subFile # StatedFile(2)

\* ========================================= claims on Spec: the two threads

\* The records of the progress thread that follow a line the main thread
\* wrote after it set the completion flag (its record 90, or the error record
\* of its except clause).
SimAfterMain ==
    {k \in Lines :
        /\ stdout[k].src = "sim"
        /\ \E j \in Lines :
               j < k /\ stdout[j].src = "main" /\ (stdout[j].progress >= 90 \/ stdout[j].err)}

\* C12: the progress thread begins a step only from its check of the
\* completion flag, and only when the flag is not set; the flag, once set by
\* the main thread (on return or on exception of the inference call), stays
\* set; so once it is set the progress thread writes at most the record of
\* the step it had already begun, then stops for good, and the remaining
\* scheduled steps are never written.
C12_FlagStopsProgressThread ==
    /\ [](mode = "batch" =>
             /\ Len(SimRecords) = i
             /\ Cardinality(SimAfterMain) <= 1
             /\ (pc \in {"finalize", "except"} /\ raisedAt \in {"none", "transcribe"}
                    => transcription_done))
    /\ [][mode = "batch" =>
             /\ (transcription_done => transcription_done')
             /\ (tpc' = "emit" /\ tpc # "emit"
                    => tpc = "check" /\ ~transcription_done /\ i < steps)
             /\ (SimRecords' # SimRecords
                    => tpc = "emit" /\ tpc' = "check"
                       /\ Len(SimRecords') = Len(SimRecords) + 1)
             /\ (tpc = "ended" => tpc' = "ended")]_vars

\* The inference call has returned after the progress thread began its third
\* step: the thread wrote that step's record after the main thread's record
\* 90, then read the flag and stopped, seven or more steps of its schedule
\* unwritten.
C12_Witness ==
    /\ mode = "batch" /\ transcription_done /\ tpc = "ended"
    /\ i = 3 /\ steps - i >= 7
    /\ Cardinality(SimAfterMain) = 1

\* ==================================== claims on Spec: the empty result

\* model.transcribe returned, without raising, a falsy result or a text
\* that is empty after stripping.
EmptyResult == mode = "batch" /\ result \in {"falsy", "empty"}

\* C13: when the inference call returns without raising but its result is
\* falsy or its text is empty after stripping, the batch run writes an error
\* record with progress 0, writes no output file and no delivery line,
\* transcribe_video returns None without raising, and main ends the process
\* with exit status zero.
C13_EmptyResultExitsZero ==
    EmptyResult =>
        /\ raisedAt = "none" /\ pc # "except" /\ retval # "raised"
        /\ ~fileWritten /\ ~saved /\ DeliveryCount = 0
        /\ pc \in {"returned", "exited"} =>
               /\ retval = "None"
               /\ \E k \in Lines :
                      /\ IsErrorRecord(k) /\ stdout[k].src = "main"
                      /\ \E j \in Lines : j < k /\ stdout[j].src = "main"
                                              /\ stdout[j].progress = 90
                      /\ \A j \in Lines : j > k => stdout[j].src = "sim"
        /\ pc = "exited" => exitCode = 0

\* A run whose model returned a text of blanks only has ended: the records
\* 90 and then 0 with an error string on standard output, nothing saved,
\* nothing delivered, exit status zero.
C13_Witness ==
    /\ BatchEnded /\ result = "empty" /\ retval = "None" /\ exitCode = 0
    /\ ErrorReported /\ DeliveryCount = 0 /\ ~fileWritten

====
